---- MODULE Spec2Model ----
(***************************************************************************)
(* A model of src/fits.rs (crate fitrs): the FITS archive `Fits`, its HDU  *)
(* cache, the three iterators (FitsIter, FitsIterMut, FitsIntoIter), the   *)
(* lookups built on them, and the per-HDU lazily decoded data array.       *)
(*                                                                         *)
(* The file is a sequence of 80-byte units.  A unit of a header block is   *)
(* a card, kept as the fields the card codec extracts from it; a unit of a *)
(* data block keeps its raw bytes.                                         *)
(***************************************************************************)
EXTENDS Integers, Sequences, FiniteSets, TLC

\* ------------------------------------------------------------------ bounds
\* A run starts either MaxOps iterators and lookups, or one of them and
\* MaxReads read_data calls.
MaxOps == 2
MaxReads == 3
\* Largest index asked of get / fits[i].
MaxIndex == 2
\* Largest NAXIS and largest axis size drawn for the byte-length computation.
MaxAxes == 3
MaxAxisLen == 3
\* Longest text drawn after the opening quote of a character string.
MaxText == 6
\* Most records of a header drawn for Hdu::value.
MaxRecords == 3

\* --------------------------------------------------------- program constants
\* Cards per header block, bytes per card (fits.rs:352, fits.rs:379).
CardsPerBlock == 36
CardBytes == 80
BlockBytes == CardsPerBlock * CardBytes

Threads == {"t1", "t2"}

\* Option<T>: None is the empty sequence, Some(x) the one-element sequence.
None == <<>>
Some(x) == <<x>>
IsSome(o) == o # <<>>
Unwrap(o) == o[1]

\* ------------------------------------------------------------- header values
\* HeaderValue (fits.rs:112): a tagged value.
CharacterString(s) == [tag |-> "CharacterString", v |-> s, n |-> 0]
Logical(b) == [tag |-> "Logical", v |-> IF b THEN "T" ELSE "F", n |-> 0]
IntegerNumber(k) == [tag |-> "IntegerNumber", v |-> "", n |-> k]

\* #[derive(PartialEq)] on HeaderValue: same variant and same payload.
HeaderValueEqVariant(a, b) == a.tag = b.tag
HeaderValueEq(a, b) == a.tag = b.tag /\ a.v = b.v /\ a.n = b.n

\* ------------------------------------------------------------------ the file
\* One 80-byte unit of the file.  key/ind/value: what the card codec reads in
\* it (keyword, value indicator "= " present, typed value); bytes: its leading
\* raw bytes, for the reads of the data decoder.
Card(k, i, v) == [key |-> k, ind |-> i, value |-> v, data |-> FALSE, bytes |-> <<>>]
ValueCard(k, hv) == Card(k, TRUE, Some(hv))
BlankCard == Card("", FALSE, None)
EndCard == Card("END", FALSE, None)
\* A unit of a data block; read as a card it has a non-blank keyword that is
\* not END and no value indicator.
DataUnit(b) == [key |-> "?", ind |-> FALSE, value |-> None, data |-> TRUE, bytes |-> b]

\* Header cards (END included) and data bytes of the HDUs of the sample files.
PrimaryEmpty ==
    [cards |-> << ValueCard("SIMPLE", Logical(TRUE)),
                  ValueCard("BITPIX", IntegerNumber(8)),
                  ValueCard("NAXIS", IntegerNumber(0)),
                  EndCard >>,
     data |-> << >>]

PrimaryImage ==
    [cards |-> << ValueCard("SIMPLE", Logical(TRUE)),
                  ValueCard("BITPIX", IntegerNumber(16)),
                  ValueCard("NAXIS", IntegerNumber(2)),
                  ValueCard("NAXIS1", IntegerNumber(2)),
                  ValueCard("NAXIS2", IntegerNumber(2)),
                  ValueCard("BLANK", IntegerNumber(-1)),
                  Card("COMMENT", FALSE, None),
                  EndCard >>,
     data |-> << 255, 255, 0, 2, 1, 0, 255, 254 >>]

ExtImage(name, n1, bytes) ==
    [cards |-> << [ValueCard("XTENSION", CharacterString("IMAGE")) EXCEPT !.bytes = <<88>>],
                  ValueCard("BITPIX", IntegerNumber(8)),
                  ValueCard("NAXIS", IntegerNumber(1)),
                  ValueCard("NAXIS1", IntegerNumber(n1)),
                  ValueCard("EXTNAME", name),
                  EndCard >>,
     data |-> bytes]

\* The big-endian bytes of the two's-complement integer n of w bytes.
big_endian(n, w) == [j \in 1..w |-> (n \div (256 ^ (w - j))) % 256]

\* The files drawn for the data decoder: one image HDU of two integer
\* elements, BITPIX 16 or 32, with or without a BLANK card.
BlankChoices ==
    << None, Some(-1), Some(0), Some(5), Some(255), Some(256), Some(65535),
       Some(32768), Some(-32768), Some(-32769), Some(65541), Some(2147483647),
       Some(-2147483647 - 1) >>

RawChoices(bitpix) ==
    IF bitpix = 16
    THEN << << -1, 5 >>, << 0, -32768 >>, << 255, 256 >>, << 32767, -2 >> >>
    ELSE << << -1, 65535 >>, << 5, 65541 >>, << 0, -2147483647 - 1 >>,
            << 2147483647, 32768 >> >>

DecodeImage(bitpix, blank, raw) ==
    [cards |-> << ValueCard("SIMPLE", Logical(TRUE)),
                  ValueCard("BITPIX", IntegerNumber(bitpix)),
                  ValueCard("NAXIS", IntegerNumber(1)),
                  ValueCard("NAXIS1", IntegerNumber(Len(raw))) >>
               \o (IF blank = None THEN << >>
                   ELSE << ValueCard("BLANK", IntegerNumber(blank[1])) >>)
               \o << EndCard >>,
     data |-> big_endian(raw[1], bitpix \div 8) \o big_endian(raw[2], bitpix \div 8)]

\* The headers drawn for the scanner: leading blank-keyword cards, SIMPLE and
\* BITPIX, the NAXIS cards of the kind, COMMENT cards, and END as card number
\* end_card of the header.  The data section of the kinds "one", "block" and
\* "over" is 3 bytes, a whole block, and a block and one byte.
BlankCounts == << 0, 2 >>
EndCards == << 7, 36, 37, 72 >>
NaxisKinds == << "zero", "one", "absent", "text", "block", "over" >>

ScanImage(blanks, end_card, kind) ==
    LET n1 == CASE kind = "one" -> 3
                [] kind = "block" -> BlockBytes
                [] kind = "over" -> BlockBytes + 1
                [] OTHER -> 0
        first == [j \in 1..blanks |-> BlankCard]
                    \o << ValueCard("SIMPLE", Logical(TRUE)),
                          ValueCard("BITPIX", IntegerNumber(8)) >>
                    \o CASE kind = "zero" -> << ValueCard("NAXIS", IntegerNumber(0)) >>
                          [] kind \in {"one", "block", "over"} ->
                                << ValueCard("NAXIS", IntegerNumber(1)),
                                   ValueCard("NAXIS1", IntegerNumber(n1)) >>
                          [] kind = "absent" -> << >>
                          [] kind = "text" -> << ValueCard("NAXIS", CharacterString("0")) >>
    IN  [cards |-> first
                   \o [j \in 1..(end_card - 1 - Len(first)) |-> Card("COMMENT", FALSE, None)]
                   \o << EndCard >>,
         data |-> [j \in 1..n1 |-> j % 256]]

\* The sample files of the archive are 1..4 and file 5 is a file of five
\* HDUs; the files after them are the decoder files, one for every choice of
\* BITPIX, BLANK and raw elements, and then the scanner files, one for every
\* choice of a header, alone in the file or behind an empty primary HDU;
\* the last two are the files with a header that cannot size its data.
FileIds == 1..4
LongFiles == {5}
DecodeFiles == 6..(5 + 2 * Len(BlankChoices) * Len(RawChoices(16)))
ScanFiles ==
    (5 + Cardinality(DecodeFiles) + 1)
        ..(5 + Cardinality(DecodeFiles)
             + 2 * Len(BlankCounts) * Len(EndCards) * Len(NaxisKinds))
\* Two files whose second HDU has a header that cannot size its data: the
\* first lacks NAXIS1, the second BITPIX.
BrokenFiles ==
    (5 + Cardinality(DecodeFiles) + Cardinality(ScanFiles) + 1)
        ..(5 + Cardinality(DecodeFiles) + Cardinality(ScanFiles) + 2)
AllFiles == FileIds \cup LongFiles \cup DecodeFiles \cup ScanFiles \cup BrokenFiles

ScanParams(f) ==
    LET k == f - (5 + Cardinality(DecodeFiles) + 1)
    IN  [behind |-> k % 2 = 1,
         blanks |-> BlankCounts[((k \div 2) % Len(BlankCounts)) + 1],
         end_card |-> EndCards[((k \div (2 * Len(BlankCounts))) % Len(EndCards)) + 1],
         kind |-> NaxisKinds[(k \div (2 * Len(BlankCounts) * Len(EndCards))) + 1]]

DecodeParams(f) ==
    LET k == f - 6
        bitpix == IF k % 2 = 0 THEN 16 ELSE 32
    IN  [bitpix |-> bitpix,
         blank |-> BlankChoices[((k \div 2) % Len(BlankChoices)) + 1],
         raw |-> RawChoices(bitpix)[(k \div (2 * Len(BlankChoices))) + 1]]

\* The files, as sequences of HDUs in file order.
FileHdus(f) ==
    CASE f = 1 -> << PrimaryImage >>
      [] f = 2 -> << PrimaryImage, ExtImage(CharacterString("b"), 2, <<7, 8>>) >>
      [] f = 3 -> << PrimaryEmpty,
                     ExtImage(CharacterString("B"), 1, <<9>>),
                     ExtImage(CharacterString("B"), 2, <<5, 6>>) >>
      [] f = 4 -> << PrimaryEmpty >>
      [] f \in LongFiles ->
            << PrimaryEmpty >> \o [k \in 1..4 |-> ExtImage(CharacterString("B"), 1, <<9>>)]
      [] f \in DecodeFiles ->
            << DecodeImage(DecodeParams(f).bitpix, DecodeParams(f).blank,
                           DecodeParams(f).raw) >>
      [] f \in ScanFiles ->
            (IF ScanParams(f).behind THEN << PrimaryEmpty >> ELSE << >>)
                \o << ScanImage(ScanParams(f).blanks, ScanParams(f).end_card,
                                ScanParams(f).kind) >>
      [] f \in BrokenFiles ->
            LET Kept(card) ==
                    card.key # (IF \A g \in BrokenFiles : f <= g THEN "NAXIS1" ELSE "BITPIX")
            IN  << PrimaryEmpty,
                   [ExtImage(CharacterString("B"), 1, <<9>>)
                        EXCEPT !.cards = SelectSeq(@, Kept)] >>

\* What follows the last HDU of the file: file 4 ends with the first cards
\* of a header that was cut short.
FileTail(f) ==
    IF f = 4 THEN << ValueCard("XTENSION", CharacterString("IMAGE")),
                     ValueCard("BITPIX", IntegerNumber(8)) >>
    ELSE << >>

\* Pad a sequence of units with filler to a whole number of blocks.
PadBlock(s, filler) ==
    s \o [i \in 1..((CardsPerBlock - (Len(s) % CardsPerBlock)) % CardsPerBlock) |-> filler]

\* The units of an HDU: its cards, then the raw bytes of its data section
\* cut into 80-byte units, each padded to whole blocks.
HduUnits(d) ==
    PadBlock(d.cards, BlankCard)
        \o PadBlock([j \in 1..((Len(d.data) + CardBytes - 1) \div CardBytes) |->
                        DataUnit(SubSeq(d.data, (j - 1) * CardBytes + 1,
                                        IF j * CardBytes < Len(d.data)
                                        THEN j * CardBytes ELSE Len(d.data)))],
                    DataUnit(<<>>))

RECURSIVE ConcatUnits(_)
ConcatUnits(ds) ==
    IF ds = <<>> THEN <<>> ELSE HduUnits(Head(ds)) \o ConcatUnits(Tail(ds))

\* The tables below are computed once: appending the empty sequence turns a
\* function over 1..n into the tuple of its values.
Table(s) == s \o << >>

\* The content of each file: its 80-byte units, in order.
FileUnitsTable == Table([f \in AllFiles |-> ConcatUnits(FileHdus(f)) \o FileTail(f)])
FileUnits(f) == FileUnitsTable[f]
FileSize(f) == CardBytes * Len(FileUnits(f))

\* Byte at offset off of the file.  A unit spells out its leading bytes; the
\* rest of a data unit is zero padding, the rest of a card reads as blanks.
unit_byte(u, j) ==
    IF j <= Len(u.bytes) THEN u.bytes[j]
    ELSE IF u.data THEN 0 ELSE 32

ByteAt(f, off) == unit_byte(FileUnits(f)[(off \div CardBytes) + 1], (off % CardBytes) + 1)

\* ---------------------------------------------------------------- card codec
\* CardImage::to_header_key_value (fits.rs:723): None for a blank keyword,
\* else the keyword with Some(HeaderValueComment) when the value indicator is
\* present and None otherwise.
to_header_key_value(card) ==
    IF card.key = "" THEN None
    ELSE IF card.ind THEN Some([key |-> card.key, vc |-> Some([value |-> card.value])])
    ELSE Some([key |-> card.key, vc |-> None])

\* -------------------------------------------------------------------- scanner
\* The rest of a pass of the while loop of read_next_hdu once its card was
\* read (fits.rs:355-364): the cursor moves on, line_count grows by counted,
\* the record kv, if any, is appended and an END keyword sets end.
card_read(st, kv, counted) ==
    [at |-> "loop",
     pos |-> st.pos + CardBytes,
     line_count |-> st.line_count + counted,
     header |-> IF IsSome(kv) THEN Append(st.header, Unwrap(kv)) ELSE st.header,
     end |-> st.end \/ (IsSome(kv) /\ Unwrap(kv).key = "END")]

\* One pass of the while loop of read_next_hdu (fits.rs:352-365) on file f.
\* st holds the cursor pos, the locals line_count, header and end, and how
\* the loop stands: "loop" while it runs, "exit" once its condition was
\* false, "none" once a card read failed.  A pass that does not count the
\* blank-keyword cards comes first.
card_step_skipping(f, st) ==
    IF st.at # "loop" THEN st
    ELSE IF ~((st.line_count % CardsPerBlock) # 0 \/ ~st.end) THEN [st EXCEPT !.at = "exit"]
    ELSE IF st.pos + CardBytes > FileSize(f) THEN [st EXCEPT !.at = "none"]
    ELSE card_read(st, to_header_key_value(FileUnits(f)[(st.pos \div CardBytes) + 1]),
                   IF IsSome(to_header_key_value(FileUnits(f)[(st.pos \div CardBytes) + 1]))
                   THEN 1 ELSE 0)

card_step(f, st) ==
    IF st.at # "loop" THEN st
    ELSE IF ~((st.line_count % CardsPerBlock) # 0 \/ ~st.end) THEN [st EXCEPT !.at = "exit"]
    ELSE IF st.pos + CardBytes > FileSize(f) THEN [st EXCEPT !.at = "none"]
    ELSE card_read(st, to_header_key_value(FileUnits(f)[(st.pos \div CardBytes) + 1]), 1)

\* n passes of the loop in a row, run in halves: the locals after the first
\* half are computed once, as the element of a singleton, and the second half
\* goes on from them.
RECURSIVE card_steps(_, _, _)
card_steps(f, st, n) ==
    IF n = 0 THEN st
    ELSE IF n = 1 THEN card_step(f, st)
    ELSE CHOOSE last \in { card_steps(f, half, n - (n \div 2)) :
                              half \in { card_steps(f, st, n \div 2) } } : TRUE

\* fits.rs:362 and 366-367: a failed card read returns None, a loop that ran
\* to its end leaves the header records and the offset reached.
loop_result(st) ==
    IF st.at = "none" THEN None ELSE Some([header |-> st.header, pos |-> st.pos])

\* The card loop of read_next_hdu (fits.rs:347-367) at every block boundary
\* of every file, computed once, with the locals of fits.rs:348-351 before
\* the first card: None when a card read fails, else the header records and
\* the offset reached.  The loop has stopped after one pass more than there
\* are cards between the offset and the end of the file.  The file never
\* changes, so the header built by a scan is kept in an Hdu as the pair
\* <<f, pos>> of where it was read, and looked up here.
CardLoopTable ==
    Table([f \in AllFiles |->
        Table([b \in 1..((FileSize(f) \div BlockBytes) + 1) |->
                 loop_result(card_steps(f, [at |-> "loop", pos |-> (b - 1) * BlockBytes,
                                            line_count |-> 0, header |-> << >>,
                                            end |-> FALSE],
                                        ((FileSize(f) - (b - 1) * BlockBytes) \div CardBytes)
                                            + 2))])])
CardLoop(f, pos) == CardLoopTable[f][(pos \div BlockBytes) + 1]
Records(header) == Unwrap(CardLoop(header[1], header[2])).header

\* ------------------------------------------------------------------------ Hdu
\* Hdu (fits.rs:59): header, data_start and the decoded-data slot.
NewHdu(header, data_start) ==
    [header |-> header, data_start |-> data_start, data |-> None]

\* A lookup that passes over the records that carry no value.
RECURSIVE value_from_valued(_, _, _)
value_from_valued(header, i, key) ==
    IF i > Len(header) THEN None
    ELSE IF header[i].key = key /\ IsSome(header[i].vc) /\ IsSome(Unwrap(header[i].vc).value)
         THEN Unwrap(header[i].vc).value
         ELSE value_from_valued(header, i + 1, key)

\* Hdu::value (fits.rs:459): the value of the first record whose keyword is key.
RECURSIVE value_from(_, _, _)
value_from(header, i, key) ==
    IF i > Len(header) THEN None
    ELSE IF header[i].key = key
         THEN (IF IsSome(header[i].vc) THEN Unwrap(header[i].vc).value ELSE None)
         ELSE value_from(header, i + 1, key)

value(hdu, key) == value_from(Records(hdu.header), 1, key)

\* Hdu::value_as_integer_number (fits.rs:470), on the header records and on
\* an Hdu: the number of an IntegerNumber value, None for any other.
integer_from(header, key) ==
    IF IsSome(value_from(header, 1, key))
       /\ Unwrap(value_from(header, 1, key)).tag = "IntegerNumber"
    THEN Some(Unwrap(value_from(header, 1, key)).n)
    ELSE None
value_as_integer_number(hdu, key) == integer_from(Records(hdu.header), key)

\* `k as usize` for an i32 k: the cast is the identity on the non-negative
\* values, the only ones the model feeds to it.
AsUsize(k) == CASE k >= 0 -> k

\* The loop of Hdu::naxis (fits.rs:480-487) over the header records: the
\* sizes NAXIS1..NAXISn, None when one of them is missing.
RECURSIVE naxis_loop(_, _, _, _)
naxis_loop(header, i, n, vec) ==
    IF i > n THEN Some(vec)
    ELSE LET k == integer_from(header, "NAXIS" \o ToString(i))
         IN  IF IsSome(k) THEN naxis_loop(header, i + 1, n, Append(vec, AsUsize(Unwrap(k))))
             ELSE None

\* The loop of Hdu::data_length (fits.rs:494-501): the first axis is added to
\* a zero length, every later axis multiplies it.
RECURSIVE data_length_loop_added(_, _, _)
data_length_loop_added(axes, i, len) ==
    IF i > Len(axes) THEN len
    ELSE data_length_loop_added(axes, i + 1, len + axes[i])

RECURSIVE data_length_loop(_, _, _)
data_length_loop(axes, i, len) ==
    IF i > Len(axes) THEN len
    ELSE data_length_loop(axes, i + 1, IF i = 1 THEN len + axes[i] ELSE len * axes[i])

\* fits.rs:509-510: bytes per element from BITPIX.
BytesPerElementSigned(bit) == bit \div 8
BytesPerElement(bit) == AsUsize(IF bit < 0 THEN -bit ELSE bit) \div 8

\* Hdu::naxis, Hdu::data_length and Hdu::data_byte_length (fits.rs:477, 492,
\* 506) over the header records.
naxis_of(header) ==
    LET n == integer_from(header, "NAXIS")
    IN  IF IsSome(n) THEN naxis_loop(header, 1, Unwrap(n), <<>>) ELSE None

data_length_of(header) ==
    LET axes == naxis_of(header)
    IN  IF IsSome(axes) THEN Some(data_length_loop(Unwrap(axes), 1, 0)) ELSE None

data_byte_length_of(header) ==
    LET len == data_length_of(header)
        bit == integer_from(header, "BITPIX")
    IN  IF IsSome(len) /\ IsSome(bit)
        THEN Some(Unwrap(len) * BytesPerElement(Unwrap(bit)))
        ELSE None

\* Hdu::naxis on an Hdu.
naxis(hdu) == naxis_of(Records(hdu.header))

\* A variant that always moves on to the following block boundary.
end_of_record_next_block(next_position) ==
    next_position + ((36 * 80) - (next_position % (36 * 80)))

\* A variant that goes back to the start of the file.
end_of_record_at_start(next_position) == next_position - next_position

\* fits.rs:379-381: next_position is incremented until it is a multiple of
\* 36 * 80; the loop stops after the first number of increments that gets there.
end_of_record(next_position) ==
    next_position
        + (CHOOSE k \in 0..(36 * 80 - 1) : ((next_position + k) % (36 * 80)) = 0)

\* fits.rs:366-382: the HDU built from the card loop's result r, with the
\* offset of the next HDU (None when data_byte_length is None, where the
\* unwrap aborts).
hdu_of(f, pos, r) ==
    IF ~IsSome(r) THEN None
    ELSE Some([hdu |-> NewHdu(<< f, pos >>, Unwrap(r).pos),
               next_position |->
                   IF ~IsSome(data_byte_length_of(Unwrap(r).header)) THEN None
                   ELSE Some(end_of_record(
                            Unwrap(r).pos + Unwrap(data_byte_length_of(Unwrap(r).header))))])

\* What a scan of file f started at offset pos produces, file lock aside:
\* IterableOverHdu::read_next_hdu (fits.rs:344).  None: no HDU; else the HDU
\* and Some(next position), or None where the unwrap of fits.rs:376 aborts.
read_next_hdu(f, pos) == hdu_of(f, pos, CardLoop(f, pos))

ScanTable ==
    Table([f \in AllFiles |->
        Table([b \in 1..((FileSize(f) \div BlockBytes) + 1) |->
                 read_next_hdu(f, (b - 1) * BlockBytes)])])
Scan(f, pos) == ScanTable[f][(pos \div BlockBytes) + 1]

\* -------------------------------------------------------------------- decoder
\* Two's-complement reading of an unsigned value of the given number of bits.
Signed(u, bits) == IF u >= 2 ^ (bits - 1) THEN u - 2 ^ bits ELSE u

\* The bit pattern of a big-endian float, kept as its bytes.
read_bits(f, off, width) == [j \in 1..width |-> ByteAt(f, off + j - 1)]

RECURSIVE product(_)
product(axes) == IF axes = <<>> THEN 1 ELSE Head(axes) * product(Tail(axes))

\* Element width in bytes of the reads of read_data_force (fits.rs:540-590).
ElementWidth(bitpix) ==
    CASE bitpix = 8 -> 1 [] bitpix = 16 -> 2 [] bitpix = 32 -> 4
      [] bitpix = -32 -> 4 [] bitpix = -64 -> 8 [] OTHER -> 0

\* fits.rs:553-556 and 569-572: an element equal to the blank value is
\* missing; without a blank value every element is present.
with_blank(n, blank) ==
    IF IsSome(blank) /\ n = Unwrap(blank) THEN None ELSE Some(n)

\* The element the closure of read_data_force for BITPIX bp makes of the
\* bytes at offset off (fits.rs:541-588): big-endian signed integers of 2
\* and 4 bytes (byteorder::BigEndian), the blank value of BITPIX 16 cast
\* with `blank.unwrap() as i16` (fits.rs:553).
read_element(f, off, bp, blank) ==
    CASE bp = 8 -> ByteAt(f, off)
      [] bp = 16 -> with_blank(Signed(ByteAt(f, off) * 256 + ByteAt(f, off + 1), 16),
                               IF IsSome(blank)
                               THEN Some((((Unwrap(blank) % 65536) + 32768) % 65536) - 32768)
                               ELSE None)
      [] bp = 32 -> with_blank(Signed(ByteAt(f, off), 8) * 16777216
                                 + ByteAt(f, off + 1) * 65536
                                 + ByteAt(f, off + 2) * 256 + ByteAt(f, off + 3),
                               blank)
      [] bp = -32 -> read_bits(f, off, 4)
      [] bp = -64 -> read_bits(f, off, 8)

\* The match of read_data_force (fits.rs:540-590) around
\* Hdu::inner_read_data_force (fits.rs:599-610), once BITPIX, the axes and
\* BLANK were looked up: the elements read from data_start, None where an
\* expect or the BITPIX match aborts or the read runs past the end of the
\* file.
inner_read_data_force(f, data_start, bitpix, axes, blank) ==
    IF ~IsSome(bitpix) \/ ElementWidth(Unwrap(bitpix)) = 0 \/ ~IsSome(axes) THEN None
    ELSE IF data_start + product(Unwrap(axes)) * ElementWidth(Unwrap(bitpix)) > FileSize(f)
    THEN None
    ELSE Some([variant |-> CASE Unwrap(bitpix) = 8 -> "Characters"
                             [] Unwrap(bitpix) \in {16, 32} -> "IntegersI32"
                             [] Unwrap(bitpix) = -32 -> "FloatingPoint32"
                             [] Unwrap(bitpix) = -64 -> "FloatingPoint64",
               shape |-> Unwrap(axes),
               data |-> [j \in 1..product(Unwrap(axes)) |->
                           read_element(f, data_start
                                             + (j - 1) * ElementWidth(Unwrap(bitpix)),
                                        Unwrap(bitpix), blank)]])

\* Hdu::read_data_force with inner_read_data_force (fits.rs:537-610), file lock
\* aside: Some(the array decoded from file f for hdu), or None where an
\* expect or the BITPIX match aborts.
read_data_force(f, hdu) ==
    inner_read_data_force(f, hdu.data_start, value_as_integer_number(hdu, "BITPIX"),
                          naxis(hdu), value_as_integer_number(hdu, "BLANK"))

\* ---------------------------------------------------------------------- state
VARIABLES
    file,             \* which sample file the archive was opened on
    hdus,             \* Fits.hdus: the HDU cache (fits.rs:20)
    total_hdu_count,  \* Fits.total_hdu_count (fits.rs:21)
    file_pos,         \* cursor of the shared File
    file_lock,        \* holder of the Mutex<File> (fits.rs:12)
    hdus_lock,        \* holder of the cache mutex (fits.rs:20)
    poisoned,         \* which of the two mutexes a panic has poisoned
    consumed,         \* the archive was moved into a FitsIntoIter
    pc,               \* where each thread stands
    op,               \* the operation each thread runs or ran last
    iter,             \* position and count of each thread's iterator
    tmp,              \* locals of a scan or decode in progress
    ret,              \* what the last operation or next() call returned
    yielded,          \* the items the thread's iterator has yielded so far
    late,             \* the operation started after the event its claim speaks of
    first_full,       \* the items yielded by the first iterator that ran to exhaustion
    decodes,          \* per cache entry: decode passes run
    writes,           \* per cache entry: writes of the data slot
    first_ret,        \* per cache entry: the array of the first read_data that returned
    opsLeft,          \* iterators and lookups that may still be started
    readsLeft,        \* read_data calls that may still be started
    len_in,           \* a header drawn for the byte-length computation
    len_out,          \* what data_byte_length returned for it
    fn_in,            \* the input drawn for one of the other functions
    fn_out,           \* what the function returned for it
    capacity,         \* capacity of the Vec<Hdu> of the cache (fits.rs:20)
    buffer            \* which allocation holds the entries of that Vec

vars == << file, hdus, total_hdu_count, file_pos, file_lock, hdus_lock, poisoned,
           consumed, pc, op, iter, tmp, ret, yielded, late, first_full,
           decodes, writes, first_ret, opsLeft, readsLeft, len_in, len_out, fn_in, fn_out, capacity, buffer >>

\* The variables of the archive and of the calls on it.
archive_vars == << file, hdus, total_hdu_count, file_pos, file_lock, hdus_lock, poisoned,
                   consumed, pc, op, iter, tmp, ret, yielded, late, first_full,
                   decodes, writes, first_ret, opsLeft, readsLeft, capacity, buffer >>

IterKinds == {"iter", "iter_mut", "into_iter"}
IndexKinds == {"get", "index"}
NameKinds == {"get_by_name", "index_str"}

NoItem == [idx |-> 0, header |-> << 0, 0 >>, data_start |-> 0]
NoArray == [variant |-> "", shape |-> <<>>, data |-> <<>>]
\* A yielded HDU: its cache index (0 for an owned HDU) and what it holds.
Item(idx, hdu) == [idx |-> idx, header |-> hdu.header, data_start |-> hdu.data_start]
Ret(status, item, array) == [status |-> status, item |-> item, array |-> array]
NoOp == [kind |-> "none", arg |-> 0, name |-> ""]

\* A header for the byte-length computation: NAXIS = n, NAXIS1..NAXISn and
\* BITPIX.
NoHeader == [n |-> 0, axes |-> << >>, bitpix |-> 0]
NotComputed == [done |-> FALSE, value |-> None]
NoInput == [fn |-> "none"]

InitOpened ==
    /\ hdus = <<>>                       \* fits.rs:130
    /\ total_hdu_count = None            \* fits.rs:131
    /\ file_pos = 0
    /\ file_lock = None
    /\ hdus_lock = None
    /\ poisoned = [file |-> FALSE, hdus |-> FALSE]
    /\ consumed = FALSE
    /\ pc = [t \in Threads |-> "idle"]
    /\ op = [t \in Threads |-> NoOp]
    /\ iter = [t \in Threads |-> [position |-> 0, count |-> 0]]
    /\ tmp = [t \in Threads |-> None]
    /\ ret = [t \in Threads |-> Ret("pending", NoItem, NoArray)]
    /\ yielded = [t \in Threads |-> <<>>]
    /\ late = [t \in Threads |-> FALSE]
    /\ first_full = None
    /\ decodes = <<>>
    /\ writes = <<>>
    /\ first_ret = <<>>
    /\ capacity = 0                      \* Vec::new() (fits.rs:130)
    /\ buffer = 0
    /\ \E budget \in { << MaxOps, 0 >>, << 1, MaxReads >> } :
          opsLeft = budget[1] /\ readsLeft = budget[2]


Init ==
    /\ InitOpened
    /\ file \in FileIds
    /\ len_in = NoHeader
    /\ len_out = NotComputed
    /\ fn_in = NoInput
    /\ fn_out = NotComputed

\* ------------------------------------------------------------ starting a call
\* The borrow rules: nothing starts on a consumed archive or while another
\* thread holds the archive mutably; an exclusive borrow needs every other
\* thread to be done.
CanStart(t) ==
    /\ pc[t] = "idle"
    /\ ~consumed
    /\ \A u \in Threads \ {t} : op[u].kind # "iter_mut"

\* Where next() of an iterator of the given kind starts: FitsIter and
\* FitsIterMut at the total_hdu_count check (fits.rs:407, 433), FitsIntoIter
\* directly in read_next_hdu (fits.rs:334).
NextEntryAllCached(kind) == "next"
NextEntry(kind) == IF kind = "into_iter" THEN "set_position" ELSE "next"

Begin(t, kind, arg, name, start) ==
    /\ IF kind = "read_data"
       THEN readsLeft > 0 /\ readsLeft' = readsLeft - 1 /\ opsLeft' = opsLeft
       ELSE opsLeft > 0 /\ opsLeft' = opsLeft - 1 /\ readsLeft' = readsLeft
    /\ op' = [op EXCEPT ![t] = [kind |-> kind, arg |-> arg, name |-> name]]
    /\ iter' = [iter EXCEPT ![t] = [position |-> 0, count |-> 0]]
    /\ yielded' = [yielded EXCEPT ![t] = <<>>]
    /\ ret' = [ret EXCEPT ![t] = Ret("pending", NoItem, NoArray)]
    /\ pc' = [pc EXCEPT ![t] = start]
    /\ UNCHANGED << len_in, len_out, fn_in, fn_out, capacity, buffer >>

\* Fits::iter, Fits::iter_mut, IntoIterator::into_iter (fits.rs:136, 145, 277)
IterNew(t) ==
    \E kind \in IterKinds :
        /\ CanStart(t)
        /\ kind # "iter" => \A u \in Threads \ {t} : pc[u] = "idle"
        /\ Begin(t, kind, 0, "", "ready")
        /\ late' = [late EXCEPT ![t] = IsSome(first_full)]
        /\ consumed' = (kind = "into_iter")
        /\ UNCHANGED << file, hdus, total_hdu_count, file_pos, file_lock, hdus_lock,
                        poisoned, tmp, first_full, decodes, writes, first_ret >>

\* The caller asks the iterator for its next item.
UserNext(t) ==
    /\ pc[t] = "ready"
    /\ pc' = [pc EXCEPT ![t] = NextEntry(op[t].kind)]
    /\ UNCHANGED << file, hdus, total_hdu_count, file_pos, file_lock, hdus_lock,
                    poisoned, consumed, op, iter, tmp, ret, yielded, late,
                    first_full, decodes, writes, first_ret, opsLeft, readsLeft, len_in, len_out, fn_in, fn_out, capacity, buffer >>

\* The locals of a thread are forgotten once its call is over.
Forget(t) ==
    /\ pc' = [pc EXCEPT ![t] = "idle"]
    /\ op' = [op EXCEPT ![t] = NoOp]
    /\ iter' = [iter EXCEPT ![t] = [position |-> 0, count |-> 0]]
    /\ ret' = [ret EXCEPT ![t] = Ret("pending", NoItem, NoArray)]
    /\ yielded' = [yielded EXCEPT ![t] = <<>>]
    /\ late' = [late EXCEPT ![t] = FALSE]

\* The caller drops the iterator, exhausted or not.
IterDrop(t) ==
    /\ pc[t] = "ready"
    /\ Forget(t)
    /\ UNCHANGED << file, hdus, total_hdu_count, file_pos, file_lock, hdus_lock,
                    poisoned, consumed, tmp, first_full, decodes, writes,
                    first_ret, opsLeft, readsLeft, len_in, len_out, fn_in, fn_out, capacity, buffer >>

\* The caller has taken the result of a lookup or of read_data.
Retire(t) ==
    /\ pc[t] = "done"
    /\ Forget(t)
    /\ UNCHANGED << file, hdus, total_hdu_count, file_pos, file_lock, hdus_lock,
                    poisoned, consumed, tmp, first_full, decodes, writes,
                    first_ret, opsLeft, readsLeft, len_in, len_out, fn_in, fn_out, capacity, buffer >>

\* Fits::get, Index<usize>, Fits::get_by_name, Index<&str> (fits.rs:163, 216,
\* 183, 247): each runs a fresh self.iter().
LookupCall(t) ==
    /\ CanStart(t)
    /\ \/ \E kind \in IndexKinds, i \in 0..MaxIndex : Begin(t, kind, i, "", "next")
       \/ \E kind \in NameKinds, s \in {"B", "b"} : Begin(t, kind, 0, s, "next")
    /\ late' = [late EXCEPT ![t] = IsSome(first_full)]
    /\ UNCHANGED << file, hdus, total_hdu_count, file_pos, file_lock, hdus_lock,
                    poisoned, consumed, tmp, first_full, decodes, writes, first_ret >>

\* ------------------------------------------------- what a next() call returns
\* r is the Option next() returns.  An iterator hands it to its caller; the
\* loop of a lookup either returns or calls next() again.
\* Option<&HeaderValue> == Some(&HeaderValue::CharacterString(name)) (fits.rs:186).
NameMatches(t, item) ==
    /\ IsSome(value(item, "EXTNAME"))
    /\ HeaderValueEq(Unwrap(value(item, "EXTNAME")), CharacterString(op[t].name))

Deliver(t, r) ==
    LET k == op[t].kind
        found == Ret("some", IF IsSome(r) THEN Unwrap(r) ELSE NoItem, NoArray)
        missed == Ret(IF k \in {"index", "index_str"} THEN "abort" ELSE "none", NoItem, NoArray)
        done == IF ~IsSome(r) THEN TRUE
                ELSE IF k \in IndexKinds THEN Len(yielded[t]) = op[t].arg
                ELSE NameMatches(t, Unwrap(r))
    IN  /\ yielded' = [yielded EXCEPT ![t] = IF IsSome(r) THEN Append(@, Unwrap(r)) ELSE @]
        /\ IF k \in IterKinds
           THEN /\ pc' = [pc EXCEPT ![t] = "ready"]
                /\ ret' = [ret EXCEPT ![t] =
                             IF IsSome(r) THEN found ELSE Ret("none", NoItem, NoArray)]
           ELSE IF done
           THEN /\ pc' = [pc EXCEPT ![t] = "done"]
                /\ ret' = [ret EXCEPT ![t] = IF IsSome(r) THEN found ELSE missed]
           ELSE /\ pc' = [pc EXCEPT ![t] = "next"]
                /\ ret' = ret

\* A variant of the panic below that leaves the guards of the thread in place.
PanicKeepingGuards(t) ==
    /\ pc' = [pc EXCEPT ![t] = "done"]
    /\ ret' = [ret EXCEPT ![t] = Ret("abort", NoItem, NoArray)]
    /\ UNCHANGED << file_lock, hdus_lock, poisoned >>

\* A panic unwinds the thread: the call aborts, and every mutex whose guard
\* the thread holds is released poisoned.
Panic(t) ==
    /\ pc' = [pc EXCEPT ![t] = "done"]
    /\ ret' = [ret EXCEPT ![t] = Ret("abort", NoItem, NoArray)]
    /\ file_lock' = IF file_lock = Some(t) THEN None ELSE file_lock
    /\ hdus_lock' = IF hdus_lock = Some(t) THEN None ELSE hdus_lock
    /\ poisoned' = [file |-> poisoned.file \/ file_lock = Some(t),
                    hdus |-> poisoned.hdus \/ hdus_lock = Some(t)]

\* ------------------------------------------- FitsIter::next / FitsIterMut::next
\* The test of fits.rs:407-408 (433-434).
PastTotalStrict(count, total) == IsSome(total) /\ count > Unwrap(total)
past_total(count, total) == IsSome(total) /\ count >= Unwrap(total)

\* fits.rs:407-411 (433-437): past the recorded total the iterator is done.
NextCheck(t) ==
    /\ pc[t] = "next"
    /\ IF past_total(iter[t].count, total_hdu_count)
       THEN Deliver(t, None)
       ELSE /\ pc' = [pc EXCEPT ![t] = "guard"]
            /\ UNCHANGED << ret, yielded >>
    /\ UNCHANGED << file, hdus, total_hdu_count, file_pos, file_lock, hdus_lock,
                    poisoned, consumed, op, iter, tmp, late, first_full,
                    decodes, writes, first_ret, opsLeft, readsLeft, len_in, len_out, fn_in, fn_out, capacity, buffer >>

\* fits.rs:412-417 (438-443): take the cache mutex; a cached index is returned
\* from the cache and only count moves, else the guard is kept for the scan.
NextGuard(t) ==
    /\ pc[t] = "guard"
    /\ hdus_lock = None
    /\ IF poisoned.hdus
       THEN /\ Panic(t)
            /\ UNCHANGED << iter, yielded >>
       ELSE IF iter[t].count < Len(hdus)
       THEN /\ iter' = [iter EXCEPT ![t].count = @ + 1]
            /\ Deliver(t, Some(Item(iter[t].count + 1, hdus[iter[t].count + 1])))
            /\ UNCHANGED << hdus_lock, file_lock, poisoned >>
       ELSE /\ hdus_lock' = Some(t)
            /\ pc' = [pc EXCEPT ![t] = "set_position"]
            /\ UNCHANGED << iter, ret, yielded, file_lock, poisoned >>
    /\ UNCHANGED << file, hdus, total_hdu_count, file_pos, consumed, op, tmp, late,
                    first_full, decodes, writes, first_ret, opsLeft, readsLeft, len_in, len_out, fn_in, fn_out, capacity, buffer >>

\* seek(SeekFrom::Start(offset)) (fits.rs:298, 607) on a file whose cursor
\* is at cur: where the cursor is afterwards; before it, a variant that
\* leaves the cursor where it was.
seek_nowhere(cur, offset) == cur
seek_from_start(cur, offset) == offset

\* self.fits.file.lock() (fits.rs:305, 314, 323) and self.file.lock()
\* (fits.rs:605): the guard returned makes thread t the holder of the file
\* mutex; before it, a variant that reads the file without holding it.
locked_by_nobody(t) == None
locked_by(t) == Some(t)

\* MovableCursor::set_position (fits.rs:295): lock the file and seek to the
\* iterator's own position.
set_position(t) ==
    /\ pc[t] = "set_position"
    /\ file_lock = None
    /\ IF poisoned.file
       THEN /\ Panic(t)
            /\ UNCHANGED file_pos
       ELSE /\ file_lock' = locked_by(t)
            /\ file_pos' = seek_from_start(file_pos, iter[t].position)
            /\ pc' = [pc EXCEPT ![t] = "read"]
            /\ UNCHANGED << ret, hdus_lock, poisoned >>
    /\ UNCHANGED << file, hdus, total_hdu_count, consumed, op, iter, tmp, yielded,
                    late, first_full, decodes, writes, first_ret, opsLeft, readsLeft, len_in, len_out, fn_in, fn_out, capacity, buffer >>

\* The card loop and tell of read_next_hdu (fits.rs:348-368), run under the
\* file lock, which is released when the block or the function is left.  A
\* failed read leaves the cursor at the end of the file.
ReadCards(t) ==
    /\ pc[t] = "read"
    /\ \E r \in { Scan(file, file_pos) } :
          /\ tmp' = [tmp EXCEPT ![t] = r]
          /\ file_pos' = IF IsSome(r) THEN Unwrap(r).hdu.data_start ELSE FileSize(file)
    /\ file_lock' = None
    /\ pc' = [pc EXCEPT ![t] = "scanned"]
    /\ UNCHANGED << file, hdus, total_hdu_count, hdus_lock, poisoned, consumed, op,
                    iter, ret, yielded, late, first_full, decodes, writes,
                    first_ret, opsLeft, readsLeft, len_in, len_out, fn_in, fn_out, capacity, buffer >>

\* hdus.push(hdu) (fits.rs:421, 447) on a Vec<Hdu> of len entries, capacity
\* cap and allocation buf: the capacity and the allocation after the push.
\* A full Vec grows, to 4 entries from none and to twice its capacity
\* otherwise.  A Vec that grows from no allocation gets one; one that grows
\* from an allocation keeps it when the allocator can extend it in place and
\* is moved to a new one otherwise.
grown(len, cap, buf) ==
    IF len < cap THEN { [capacity |-> cap, buffer |-> buf] }
    ELSE IF cap = 0 THEN { [capacity |-> 4, buffer |-> buf + 1] }
    ELSE { [capacity |-> 2 * cap, buffer |-> b] : b \in {buf, buf + 1} }

\* fits.rs:370-382 then 418-422 (444-448): size the data section, move the
\* iterator and append the HDU to the cache.
NextPush(t) ==
    /\ pc[t] = "scanned"
    /\ op[t].kind # "into_iter"
    /\ IsSome(tmp[t])
    /\ LET hdu == Unwrap(tmp[t]).hdu
           next_position == Unwrap(tmp[t]).next_position
       IN  IF ~IsSome(next_position)
           THEN /\ Panic(t)
                /\ UNCHANGED << iter, hdus, yielded, decodes, writes, first_ret,
                                capacity, buffer >>
           ELSE /\ iter' = [iter EXCEPT ![t] = [position |-> Unwrap(next_position),
                                                count |-> @.count + 1]]
                /\ hdus' = Append(hdus, hdu)
                /\ \E g \in grown(Len(hdus), capacity, buffer) :
                       capacity' = g.capacity /\ buffer' = g.buffer
                /\ decodes' = Append(decodes, 0)
                /\ writes' = Append(writes, 0)
                /\ first_ret' = Append(first_ret, None)
                /\ hdus_lock' = None
                /\ Deliver(t, Some(Item(Len(hdus) + 1, hdu)))
                /\ UNCHANGED << file_lock, poisoned >>
    /\ tmp' = [tmp EXCEPT ![t] = None]
    /\ UNCHANGED << file, total_hdu_count, file_pos, consumed, op, late,
                    first_full, opsLeft, readsLeft, len_in, len_out, fn_in, fn_out >>

\* fits.rs:424 (450): the value written to total_hdu_count when the scan
\* produced nothing; before it, a variant that leaves the flag unset.
scanned_total_unset(count) == None
scanned_total(count) == Some(count)

\* fits.rs:423-426 (449-452): the scan produced nothing; record the total.
NextEnd(t) ==
    /\ pc[t] = "scanned"
    /\ op[t].kind # "into_iter"
    /\ ~IsSome(tmp[t])
    /\ total_hdu_count' = scanned_total(iter[t].count)
    /\ first_full' = IF IsSome(first_full) THEN first_full ELSE Some(yielded[t])
    /\ hdus_lock' = None
    /\ Deliver(t, None)
    /\ UNCHANGED << file, hdus, file_pos, file_lock, poisoned, consumed, op, iter,
                    tmp, late, decodes, writes, first_ret, opsLeft, readsLeft, len_in, len_out, fn_in, fn_out, capacity, buffer >>

\* FitsIntoIter::next (fits.rs:333-338): the scanned HDU itself is returned
\* and only position moves.
IntoNext(t) ==
    /\ pc[t] = "scanned"
    /\ op[t].kind = "into_iter"
    /\ IF IsSome(tmp[t])
       THEN LET hdu == Unwrap(tmp[t]).hdu
                next_position == Unwrap(tmp[t]).next_position
            IN  IF ~IsSome(next_position)
                THEN /\ Panic(t)
                     /\ UNCHANGED << iter, yielded >>
                ELSE /\ iter' = [iter EXCEPT ![t].position = Unwrap(next_position)]
                     /\ Deliver(t, Some(Item(0, hdu)))
                     /\ UNCHANGED << file_lock, hdus_lock, poisoned >>
       ELSE /\ Deliver(t, None)
            /\ UNCHANGED << iter, file_lock, hdus_lock, poisoned >>
    /\ tmp' = [tmp EXCEPT ![t] = None]
    /\ UNCHANGED << file, hdus, total_hdu_count, file_pos, consumed, op, late,
                    first_full, decodes, writes, first_ret, opsLeft, readsLeft, len_in, len_out, fn_in, fn_out, capacity, buffer >>

\* ------------------------------------------------------------- Hdu::read_data
\* A caller that holds a reference to cache entry i calls read_data on it.
ReadDataCall(t) ==
    \E i \in 1..Len(hdus) :
        /\ CanStart(t)
        /\ Begin(t, "read_data", i, "", "read_data")
        /\ late' = [late EXCEPT ![t] = IsSome(first_ret[i])]
        /\ UNCHANGED << file, hdus, total_hdu_count, file_pos, file_lock, hdus_lock,
                        poisoned, consumed, tmp, first_full, decodes, writes, first_ret >>

\* Hdu::read_data (fits.rs:529-534) with is_data_cached (fits.rs:515).
IsDataCachedNever(hdu) == FALSE
is_data_cached(hdu) == IsSome(hdu.data)

ReadDataCheck(t) ==
    /\ pc[t] = "read_data"
    /\ pc' = [pc EXCEPT ![t] =
                IF is_data_cached(hdus[op[t].arg]) THEN "data" ELSE "read_data_force"]
    /\ UNCHANGED << file, hdus, total_hdu_count, file_pos, file_lock, hdus_lock,
                    poisoned, consumed, op, iter, tmp, ret, yielded, late,
                    first_full, decodes, writes, first_ret, opsLeft, readsLeft, len_in, len_out, fn_in, fn_out, capacity, buffer >>

\* self.data().unwrap() (fits.rs:531 and 596): what read_data hands back is a
\* reference to the content of the slot.
ReadDataCached(t) ==
    /\ pc[t] = "data"
    /\ ret' = [ret EXCEPT ![t] = Ret("data", NoItem, Unwrap(hdus[op[t].arg].data))]
    /\ first_ret' = [first_ret EXCEPT ![op[t].arg] =
                        IF IsSome(@) THEN @ ELSE Some(Unwrap(hdus[op[t].arg].data))]
    /\ pc' = [pc EXCEPT ![t] = "done"]
    /\ UNCHANGED << file, hdus, total_hdu_count, file_pos, file_lock, hdus_lock,
                    poisoned, consumed, op, iter, tmp, yielded, late, first_full,
                    decodes, writes, opsLeft, readsLeft, len_in, len_out, fn_in, fn_out, capacity, buffer >>

\* inner_read_data_force (fits.rs:603-608): lock the file and seek to the
\* data section.  The expects on BITPIX and NAXIS come first.
DecodeSeek(t) ==
    /\ pc[t] = "read_data_force"
    /\ LET hdu == hdus[op[t].arg]
       IN  IF ~IsSome(value_as_integer_number(hdu, "BITPIX")) \/ ~IsSome(naxis(hdu))
           THEN /\ Panic(t)
                /\ UNCHANGED file_pos
           ELSE /\ file_lock = None
                /\ IF poisoned.file
                   THEN /\ Panic(t)
                        /\ UNCHANGED file_pos
                   ELSE /\ file_lock' = locked_by(t)
                        /\ file_pos' = seek_from_start(file_pos, hdu.data_start)
                        /\ pc' = [pc EXCEPT ![t] = "decode"]
                        /\ UNCHANGED << ret, hdus_lock, poisoned >>
    /\ UNCHANGED << file, hdus, total_hdu_count, consumed, op, iter, tmp, yielded,
                    late, first_full, decodes, writes, first_ret, opsLeft, readsLeft, len_in, len_out, fn_in, fn_out, capacity, buffer >>

\* The read closure (fits.rs:609 with 541-589), under the file lock: the
\* elements are read where the cursor of the file stands.
DecodeRead(t) ==
    /\ pc[t] = "decode"
    /\ \E a \in { inner_read_data_force(file, file_pos,
                                         value_as_integer_number(hdus[op[t].arg], "BITPIX"),
                                         naxis(hdus[op[t].arg]),
                                         value_as_integer_number(hdus[op[t].arg], "BLANK")) } :
          IF ~IsSome(a)
          THEN /\ Panic(t)
               /\ UNCHANGED << tmp, file_pos, decodes >>
          ELSE /\ tmp' = [tmp EXCEPT ![t] = a]
               /\ file_pos' = file_pos
                       + Len(Unwrap(a).data)
                           * ElementWidth(Unwrap(value_as_integer_number(hdus[op[t].arg], "BITPIX")))
               /\ decodes' = [decodes EXCEPT ![op[t].arg] = @ + 1]
               /\ file_lock' = None
               /\ pc' = [pc EXCEPT ![t] = "store"]
               /\ UNCHANGED << ret, hdus_lock, poisoned >>
    /\ UNCHANGED << file, hdus, total_hdu_count, consumed, op, iter, yielded, late,
                    first_full, writes, first_ret, opsLeft, readsLeft, len_in, len_out, fn_in, fn_out, capacity, buffer >>

\* fits.rs:592-595: write the decoded array into the slot.
DecodeStore(t) ==
    /\ pc[t] = "store"
    /\ hdus' = [hdus EXCEPT ![op[t].arg].data = tmp[t]]
    /\ writes' = [writes EXCEPT ![op[t].arg] = @ + 1]
    /\ tmp' = [tmp EXCEPT ![t] = None]
    /\ pc' = [pc EXCEPT ![t] = "data"]
    /\ UNCHANGED << file, total_hdu_count, file_pos, file_lock, hdus_lock, poisoned,
                    consumed, op, iter, ret, yielded, late, first_full, decodes,
                    first_ret, opsLeft, readsLeft, len_in, len_out, fn_in, fn_out, capacity, buffer >>

\* ---------------------------------------------------------- the specification
Next ==
    \E t \in Threads :
        \/ IterNew(t)
        \/ UserNext(t)
        \/ IterDrop(t)
        \/ Retire(t)
        \/ LookupCall(t)
        \/ NextCheck(t)
        \/ NextGuard(t)
        \/ set_position(t)
        \/ ReadCards(t)
        \/ NextPush(t)
        \/ NextEnd(t)
        \/ IntoNext(t)
        \/ ReadDataCall(t)
        \/ ReadDataCheck(t)
        \/ ReadDataCached(t)
        \/ DecodeSeek(t)
        \/ DecodeRead(t)
        \/ DecodeStore(t)

Spec == Init /\ [][Next]_vars

\* ------------------------------------------------ the byte-length computation
\* Hdu::data_byte_length as a function of the header alone: the headers drawn
\* carry BITPIX, NAXIS = n and NAXIS1..NAXISn as integer cards.
LenInputs ==
    UNION { { [n |-> n, axes |-> a, bitpix |-> b] :
                a \in [1..n -> 0..MaxAxisLen], b \in {8, 16, 32, 64, -32, -64} } : n \in 0..MaxAxes }

IntegerRecord(key, k) == [key |-> key, vc |-> Some([value |-> Some(IntegerNumber(k))])]

LenHeader(in) ==
    << IntegerRecord("BITPIX", in.bitpix), IntegerRecord("NAXIS", in.n) >>
        \o [i \in 1..in.n |-> IntegerRecord("NAXIS" \o ToString(i), in.axes[i])]

InitLen ==
    /\ InitOpened
    /\ file = 1
    /\ opsLeft = MaxOps
    /\ len_in \in LenInputs
    /\ len_out = NotComputed
    /\ fn_in = NoInput
    /\ fn_out = NotComputed

\* Hdu::data_byte_length (fits.rs:506) on an Hdu with the drawn header.
ComputeLen ==
    /\ ~len_out.done
    /\ len_out' = [done |-> TRUE, value |-> data_byte_length_of(LenHeader(len_in))]
    /\ UNCHANGED << file, hdus, total_hdu_count, file_pos, file_lock, hdus_lock,
                    poisoned, consumed, pc, op, iter, tmp, ret, yielded, late,
                    first_full, decodes, writes, first_ret, opsLeft, readsLeft, len_in,
                    fn_in, fn_out, capacity, buffer >>

SpecLen == InitLen /\ [][ComputeLen]_vars

\* ------------------------------------------------- the card codec, byte level
\* The byte constants of fits.rs:613-618.
EQUAL_U8 == 61
SPACE_U8 == 32
SLASH_U8 == 47
QUOTE_U8 == 39
T_U8 == 84
F_U8 == 70

RealFloatingNumber(x) == [tag |-> "RealFloatingNumber", v |-> "", n |-> x]

\* The outcomes of a call: it aborts, or it returns a value.
Aborted == [outcome |-> "abort", value |-> None]
Returned(x) == [outcome |-> "return", value |-> x]

Spaces(n) == [j \in 1..n |-> SPACE_U8]

\* One pass of the loop body (fits.rs:637-655) on byte i of the bytes after
\* the opening quote.
string_step(subcard, st, i) ==
    IF st.broke THEN st
    ELSE IF st.prev_single_quote /\ subcard[i + 1] = QUOTE_U8
    THEN [st EXCEPT !.s = Append(@, QUOTE_U8), !.prev_single_quote = FALSE]
    ELSE IF st.prev_single_quote THEN [st EXCEPT !.broke = TRUE]
    ELSE IF subcard[i + 1] = QUOTE_U8 THEN [st EXCEPT !.prev_single_quote = TRUE]
    ELSE IF i > 0 /\ subcard[i + 1] = SPACE_U8
    THEN [st EXCEPT !.white_space_count = @ + 1]
    ELSE [st EXCEPT !.s = (@ \o Spaces(st.white_space_count)) \o << subcard[i + 1] >>,
                    !.white_space_count = 0]

\* The loop of fits.rs:636-656 over the indices lo..hi in order, from the
\* locals st; the range is run in halves, the locals after the first half
\* being computed once.
RECURSIVE string_loop(_, _, _, _)
string_loop(subcard, st, lo, hi) ==
    IF lo > hi THEN st
    ELSE IF lo = hi THEN string_step(subcard, st, lo)
    ELSE CHOOSE last \in { string_loop(subcard, half, (lo + hi) \div 2 + 1, hi) :
                              half \in { string_loop(subcard, st, lo, (lo + hi) \div 2) } } :
             TRUE

\* HeaderValue::new_character_string (fits.rs:628): subcard[0] aborts on an
\* empty slice.  The string is kept as its bytes.
new_character_string(subcard) ==
    IF Len(subcard) = 0 THEN Aborted
    ELSE IF subcard[1] # QUOTE_U8 THEN Returned(None)
    ELSE Returned(Some(CharacterString(
             string_loop(Tail(subcard),
                         [s |-> << >>, prev_single_quote |-> FALSE,
                          white_space_count |-> 0, broke |-> FALSE],
                         0, Len(subcard) - 2).s)))

\* fits.rs:662
logical_constant_column == 30 - 10 - 1

\* One pass of the loop body of HeaderValue::new_logical (fits.rs:664-674) on
\* byte i; st.b is the local b and st.none records the early return of None.
logical_step(field, st, i) ==
    IF st.none THEN st
    ELSE IF i = logical_constant_column /\ field[i + 1] = T_U8 THEN [st EXCEPT !.b = TRUE]
    ELSE IF i = logical_constant_column /\ field[i + 1] = F_U8 THEN [st EXCEPT !.b = FALSE]
    ELSE IF i = logical_constant_column \/ field[i + 1] # SPACE_U8
    THEN [st EXCEPT !.none = TRUE]
    ELSE st

\* The loop of fits.rs:663-675 over the indices lo..hi in order; the range is
\* run in halves.
RECURSIVE logical_loop(_, _, _, _)
logical_loop(field, st, lo, hi) ==
    IF lo > hi THEN st
    ELSE IF lo = hi THEN logical_step(field, st, lo)
    ELSE CHOOSE last \in { logical_loop(field, half, (lo + hi) \div 2 + 1, hi) :
                              half \in { logical_loop(field, st, lo, (lo + hi) \div 2) } } :
             TRUE

\* HeaderValue::new_logical (fits.rs:660)
new_logical(field) ==
    LET st == logical_loop(field, [b |-> FALSE, none |-> FALSE], 0, Len(field) - 1)
    IN  IF st.none THEN None ELSE Some(Logical(st.b))

\* str::trim on ASCII bytes: white space is removed at both ends.
trim(s) ==
    LET kept == { j \in 1..Len(s) : s[j] \notin {9, 10, 11, 12, 13, 32} }
    IN  IF kept = {} THEN << >>
        ELSE SubSeq(s, CHOOSE j \in kept : \A k \in kept : j <= k,
                       CHOOSE j \in kept : \A k \in kept : j >= k)

\* The decimal digits of s from index i on, accumulated; None at a byte that
\* is no digit.
RECURSIVE digits_from(_, _, _)
digits_from(s, i, acc) ==
    IF i > Len(s) THEN Some(acc)
    ELSE IF s[i] \notin 48..57 THEN None
    ELSE digits_from(s, i + 1, acc * 10 + (s[i] - 48))

\* An optional sign followed by one or more decimal digits, as an integer.
signed_decimal(s) ==
    LET signed == s # << >> /\ s[1] \in {43, 45}
        digits == IF signed THEN Tail(s) ELSE s
        k == IF digits = << >> THEN None ELSE digits_from(digits, 1, 0)
    IN  IF ~IsSome(k) THEN None
        ELSE Some(IF signed /\ s[1] = 45 THEN 0 - Unwrap(k) ELSE Unwrap(k))

\* HeaderValue::new_integer (fits.rs:679): i32::from_str_radix of the trimmed
\* text; a value outside the i32 range is an error (the texts drawn have at
\* most two digits).
new_integer(field) ==
    LET k == signed_decimal(trim(field))
    IN  IF IsSome(k) /\ Unwrap(k) >= -2147483647 - 1 /\ Unwrap(k) <= 2147483647
        THEN Some(IntegerNumber(Unwrap(k)))
        ELSE None

\* HeaderValue::new_real_floating (fits.rs:689): f64::from_str of the trimmed
\* text.  On the bytes the model draws (no '.', no exponent, no letters of
\* "inf" or "nan") the texts it accepts are the signed decimals.
new_real_floating(field) ==
    LET k == signed_decimal(trim(field))
    IN  IF IsSome(k) THEN Some(RealFloatingNumber(Unwrap(k))) ELSE None

\* HeaderValue::new (fits.rs:621): the first interpretation that succeeds.
HeaderValue_new(field) ==
    LET cs == new_character_string(field)
    IN  IF cs.outcome = "abort" THEN Aborted
        ELSE IF IsSome(cs.value) THEN cs
        ELSE IF IsSome(new_logical(field)) THEN Returned(new_logical(field))
        ELSE IF IsSome(new_integer(field)) THEN Returned(new_integer(field))
        ELSE Returned(new_real_floating(field))

\* The slices of value_comment.split(|c| *c == SLASH_U8) (fits.rs:702): the
\* bytes before the first slash, and the bytes between the first and the
\* second when there is a first.
SlashAt(s, from) ==
    LET at == { j \in from..Len(s) : s[j] = SLASH_U8 }
    IN  IF at = {} THEN Len(s) + 1 ELSE CHOOSE j \in at : \A k \in at : j <= k

value_slice(value_comment) == SubSeq(value_comment, 1, SlashAt(value_comment, 1) - 1)

comment_slice(value_comment) ==
    LET first == SlashAt(value_comment, 1)
    IN  IF first > Len(value_comment) THEN None
        ELSE Some(SubSeq(value_comment, first + 1, SlashAt(value_comment, first + 1) - 1))

\* HeaderValueComment::new (fits.rs:701)
HeaderValueComment_new(value_comment) ==
    LET val == HeaderValue_new(value_slice(value_comment))
        comment == comment_slice(value_comment)
    IN  IF val.outcome = "abort" THEN Aborted
        ELSE Returned([value |-> val.value,
                       comment |-> IF IsSome(comment) THEN Some(trim(Unwrap(comment)))
                                   ELSE None])

\* The keyword loop of fits.rs:729-734: the bytes before the first space.
RECURSIVE keyword_loop(_, _, _)
keyword_loop(keyword, i, key) ==
    IF i > Len(keyword) \/ keyword[i] = SPACE_U8 THEN key
    ELSE keyword_loop(keyword, i + 1, Append(key, keyword[i]))

\* CardImage::to_header_key_value (fits.rs:723) on the 80 bytes of a card.
CardImage_to_header_key_value(card) ==
    LET keyword == SubSeq(card, 1, 8)
        value_indicator == SubSeq(card, 9, 10)
        value_comment == SubSeq(card, 11, 80)
        key == keyword_loop(keyword, 1, << >>)
    IN  IF key = << >> THEN Returned(None)
        ELSE IF value_indicator[1] = EQUAL_U8 /\ value_indicator[2] = SPACE_U8
        THEN LET val == HeaderValueComment_new(value_comment)
             IN  IF val.outcome = "abort" THEN Aborted
                 ELSE Returned(Some([key |-> key, vc |-> Some(val.value)]))
        ELSE Returned(Some([key |-> key, vc |-> None]))

\* The cards drawn for the codec: 80 bytes, a keyword, a value indicator and
\* 70 bytes of value and comment.
KeyK == << 75 >> \o Spaces(7)
ValueIndicator == << EQUAL_U8, SPACE_U8 >>

\* A blank field with up to two bytes marked and a slash, or none.
MarkOffsets == {0, 18, 19, 20, 69}
MarkBytes == {SPACE_U8, T_U8, F_U8, QUOTE_U8, 49}
SlashOffsets == {0, 1, 19, 20, 21, 70}

MarkedField(p1, b1, p2, b2, slash) ==
    [j \in 1..70 |->
        IF j - 1 = slash THEN SLASH_U8
        ELSE IF j - 1 = p1 THEN b1
        ELSE IF j - 1 = p2 THEN b2
        ELSE SPACE_U8]

\* The cards drawn: a quoted text of up to MaxText bytes (quotes, spaces and
\* the letter a) after the opening quote, the rest of the card blank; a
\* marked field behind the keyword and the value indicator; and cards with
\* a blank keyword or without the value indicator.
CodecCards ==
    UNION { { (KeyK \o ValueIndicator \o << QUOTE_U8 >> \o body) \o Spaces(69 - n) :
                body \in [1..n -> {QUOTE_U8, SPACE_U8, 97}] } : n \in 0..MaxText }
    \cup
    { KeyK \o ValueIndicator \o MarkedField(p1, b1, p2, b2, slash) :
        p1 \in MarkOffsets, b1 \in MarkBytes, p2 \in MarkOffsets, b2 \in MarkBytes,
        slash \in SlashOffsets }
    \cup
    { key \o ind \o MarkedField(19, b, 19, b, slash) :
        key \in {KeyK, Spaces(8)},
        ind \in {ValueIndicator, Spaces(2), << EQUAL_U8, 49 >>},
        b \in MarkBytes, slash \in SlashOffsets }

InitCodec ==
    /\ InitOpened
    /\ file = 1
    /\ opsLeft = MaxOps
    /\ len_in = NoHeader
    /\ len_out = NotComputed
    /\ \E card \in CodecCards :
           fn_in = [fn |-> "card", card |-> card]
    /\ fn_out = NotComputed

\* CardImage::to_header_key_value (fits.rs:723) on the card drawn.
DecodeCard ==
    /\ fn_in.fn = "card"
    /\ ~fn_out.done
    /\ fn_out' = [done |-> TRUE, value |-> CardImage_to_header_key_value(fn_in.card)]
    /\ UNCHANGED << archive_vars, len_in, len_out, fn_in >>

SpecCodec == InitCodec /\ [][DecodeCard]_vars

\* ----------------------------------------------------- the layout of the file
\* Where the k-th HDU of file f starts and where its data unit starts, from
\* the sizes of the header and data blocks that precede it.
RECURSIVE HduOffset(_, _)
HduOffset(f, k) ==
    IF k = 1 THEN 0
    ELSE HduOffset(f, k - 1) + CardBytes * Len(HduUnits(FileHdus(f)[k - 1]))

LayoutTable ==
    Table([f \in FileIds \cup LongFiles |->
        Table([k \in 1..Len(FileHdus(f)) |->
            [start |-> HduOffset(f, k),
             data_start |-> HduOffset(f, k)
                 + CardBytes * Len(PadBlock(FileHdus(f)[k].cards, BlankCard))]])])

\* item holds the k-th HDU of file f (k counted from 1).
IsFileHdu(f, k, item) ==
    /\ k \in 1..Len(FileHdus(f))
    /\ item.header = << f, LayoutTable[f][k].start >>
    /\ item.data_start = LayoutTable[f][k].data_start

Exhausted(t) == pc[t] = "ready" /\ ret[t].status = "none"

\* ------------------------------------------------------------------ claim C1
\* C1: every iterator (iter, iter_mut, into_iter) yields the HDUs of the file
\* in file order, its k-th item being the k-th HDU, and has yielded exactly N
\* of them when it returns None, whatever was iterated or looked up before.
C1_IteratorYieldsFileHdus ==
    \A t \in Threads :
        op[t].kind \in IterKinds =>
            /\ \A k \in 1..Len(yielded[t]) : IsFileHdu(file, k, yielded[t][k])
            /\ Exhausted(t) => Len(yielded[t]) = Len(FileHdus(file))

\* ------------------------------------------------------------------ claim C2
\* C2: cache entry i is the HDU found at the i-th HDU offset of the file (so
\* no HDU is appended twice), and the scan that appends the next entry starts
\* at the offset that follows the last cached HDU.
C2_CacheEntryIsFileHdu ==
    /\ \A i \in 1..Len(hdus) : IsFileHdu(file, i, Item(i, hdus[i]))
    /\ \A t \in Threads :
           (pc[t] = "read" /\ op[t].kind # "into_iter" /\ Len(hdus) < Len(FileHdus(file)))
               => file_pos = LayoutTable[file][Len(hdus) + 1].start

\* ------------------------------------------------------------------ claim C3
\* C3: get(i) and fits[i] return the i-th HDU of the file (0-based) when
\* i < N; for i >= N get returns absent and fits[i] aborts; this holds after
\* any earlier calls.
C3_IndexLookupReturnsFileHdu ==
    \A t \in Threads :
        (pc[t] = "done" /\ op[t].kind \in IndexKinds) =>
            IF op[t].arg < Len(FileHdus(file))
            THEN ret[t].status = "some" /\ IsFileHdu(file, op[t].arg + 1, ret[t].item)
            ELSE ret[t].status = (IF op[t].kind = "get" THEN "none" ELSE "abort")

\* ------------------------------------------------------------------ claim C4
\* C4: get_by_name(s) and fits[s] return the HDU at the lowest file position
\* whose EXTNAME value is the character string s, compared exactly; when no
\* HDU has it, get_by_name returns absent and fits[s] aborts.
C4_NameLookupReturnsLowestMatch ==
    \A t \in Threads :
        (pc[t] = "done" /\ op[t].kind \in NameKinds) =>
            LET HasExtName(k) ==
                    \E j \in 1..Len(FileHdus(file)[k].cards) :
                        /\ FileHdus(file)[k].cards[j].key = "EXTNAME"
                        /\ FileHdus(file)[k].cards[j].ind
                        /\ FileHdus(file)[k].cards[j].value
                               = Some(CharacterString(op[t].name))
                ks == { k \in 1..Len(FileHdus(file)) : HasExtName(k) }
            IN  IF ks # {}
                THEN /\ ret[t].status = "some"
                     /\ IsFileHdu(file, CHOOSE k \in ks : \A j \in ks : k <= j, ret[t].item)
                ELSE ret[t].status = (IF op[t].kind = "get_by_name" THEN "none" ELSE "abort")

\* A name lookup has returned the HDU named "B" of lowest file position, the
\* second HDU of the file, from a cache that holds it at a later index.
C4_Witness ==
    \E t \in Threads :
        /\ pc[t] = "done" /\ op[t].kind \in NameKinds /\ op[t].name = "B"
        /\ file = 3 /\ ret[t].status = "some" /\ ret[t].item.idx > 2

\* ------------------------------------------------------------------ claim C5
\* C5: when several threads call read_data on the same HDU at the same time,
\* exactly one decoding pass over the file happens and the slot is filled
\* once, every caller receiving that one array.
C5_OneDecodePass ==
    \A i \in 1..Len(hdus) : decodes[i] <= 1 /\ writes[i] <= 1

\* ------------------------------------------------------------------ claim C6
\* C6: once the data slot of an HDU holds an array, no step writes the slot
\* again.
C6_FilledSlotNeverWritten ==
    [][\A i \in 1..Len(hdus) : IsSome(hdus[i].data) => writes'[i] = writes[i]]_vars

\* ------------------------------------------------------------------ claim C7
\* C7: an iteration or lookup started after an iterator was exhausted never
\* enters the scanner (no seek, no read of the file) and yields the HDUs the
\* exhausted iterator yielded, in the same order.
C7_LateIterationFromCacheOnly ==
    \A t \in Threads :
        (late[t] /\ op[t].kind \in {"iter", "iter_mut"} \cup IndexKinds \cup NameKinds) =>
            /\ pc[t] \notin {"set_position", "read", "scanned"}
            /\ Len(yielded[t]) <= Len(Unwrap(first_full))
            /\ SubSeq(Unwrap(first_full), 1, Len(yielded[t])) = yielded[t]
            /\ (Exhausted(t) \/ (pc[t] = "done" /\ ret[t].status # "some"))
                   => yielded[t] = Unwrap(first_full)

\* A later iterator has walked the whole archive and returned None.
C7_Witness ==
    \E t \in Threads :
        /\ late[t] /\ op[t].kind \in {"iter", "iter_mut"} /\ Exhausted(t)
        /\ Len(yielded[t]) >= 2

C9_LateReadDataFromSlot ==
    \A t \in Threads :
        (late[t] /\ op[t].kind = "read_data") =>
            /\ pc[t] \notin {"read_data_force", "decode", "store"}
            /\ pc[t] = "done" =>
                   ret[t].status = "data" /\ ret[t].array = Unwrap(first_ret[op[t].arg])

\* A later read_data has returned while a racing earlier call had written the
\* slot a second time.
C9_Witness ==
    \E t \in Threads :
        /\ late[t] /\ op[t].kind = "read_data" /\ pc[t] = "done"
        /\ writes[op[t].arg] >= 2

\* ----------------------------------------------------------------- claim C10
\* C10: for NAXIS = n >= 1 with non-negative axis sizes, data_byte_length is
\* (|BITPIX| / 8) * NAXIS1 * ... * NAXISn.
C10_ByteLengthIsProduct ==
    LET RECURSIVE ProductOf(_)
        ProductOf(axes) == IF axes = <<>> THEN 1 ELSE Head(axes) * ProductOf(Tail(axes))
        Magnitude(k) == IF k < 0 THEN 0 - k ELSE k
    IN  (len_out.done /\ len_in.n >= 1) =>
            len_out.value = Some((Magnitude(len_in.bitpix) \div 8) * ProductOf(len_in.axes))

\* The byte length of a header with two or more non-empty axes and a negative
\* BITPIX has been computed.
C10_Witness ==
    /\ len_out.done /\ len_in.n >= 2 /\ len_in.bitpix < 0
    /\ \A i \in 1..len_in.n : len_in.axes[i] >= 2
    /\ IsSome(len_out.value)

\* ----------------------------------------------------------------- claim C11
\* C11: for NAXIS = n >= 2 the byte length of the data section that the
\* scanner uses is (|BITPIX| / 8) * (NAXIS1 + NAXIS2 * ... * NAXISn): the
\* first axis is added to the product of the others.
C11_FirstAxisAddedToRest ==
    LET RECURSIVE Times(_)
        Times(axes) == IF axes = <<>> THEN 1 ELSE Head(axes) * Times(Tail(axes))
        Bytes == (IF len_in.bitpix < 0 THEN 0 - len_in.bitpix ELSE len_in.bitpix) \div 8
    IN  (len_out.done /\ len_in.n >= 2) =>
            len_out.value = Some(Bytes * (Head(len_in.axes) + Times(Tail(len_in.axes))))

\* C11 as the code has it: the byte length is (|BITPIX| / 8) times the product
\* of all the axes, the first included, and 0 when NAXIS = 0.
C11_FirstAxisMultiplied ==
    LET RECURSIVE Times(_)
        Times(axes) == IF axes = <<>> THEN 1 ELSE Head(axes) * Times(Tail(axes))
        Bytes == (IF len_in.bitpix < 0 THEN 0 - len_in.bitpix ELSE len_in.bitpix) \div 8
    IN  len_out.done =>
            len_out.value = Some(IF len_in.n = 0 THEN 0 ELSE Bytes * Times(len_in.axes))

\* The byte length of a 3 x 3 array of 16-bit elements, where the sum of the
\* axes and their product differ, has been computed.
C11_Witness ==
    /\ len_out.done /\ len_in.bitpix = 16 /\ len_in.axes = << 3, 3 >>
    /\ len_out.value = Some(18)

\* ------------------------------------------------------- Hdu::value, isolated
\* Headers of up to MaxRecords records over two keywords, one a prefix of the
\* other; a record has no value-and-comment part, one without a value, or one
\* with an integer value.
ValueHeaders ==
    UNION { [1..n -> { [key |-> k, vc |-> p] :
                         k \in {"A", "AB"},
                         p \in {None, Some([value |-> None]),
                                Some([value |-> Some(IntegerNumber(1))]),
                                Some([value |-> Some(IntegerNumber(2))])} }] :
              n \in 0..MaxRecords }

InitValue ==
    /\ InitOpened
    /\ file = 1
    /\ opsLeft = MaxOps
    /\ len_in = NoHeader
    /\ len_out = NotComputed
    /\ \E header \in ValueHeaders, key \in {"A", "AB", "B"} :
           fn_in = [fn |-> "value", header |-> header, key |-> key]
    /\ fn_out = NotComputed

\* Hdu::value (fits.rs:459) on an Hdu with the header drawn.
LookupValue ==
    /\ fn_in.fn = "value"
    /\ ~fn_out.done
    /\ fn_out' = [done |-> TRUE, value |-> value_from(fn_in.header, 1, fn_in.key)]
    /\ UNCHANGED << archive_vars, len_in, len_out, fn_in >>

SpecValue == InitValue /\ [][LookupValue]_vars

\* ------------------------------------------------- the data decoder, isolated
\* The archive is opened on a decoder file; its HDU is scanned at offset 0 and
\* its data decoded.
InitDecode ==
    /\ InitOpened
    /\ file \in DecodeFiles
    /\ opsLeft = MaxOps
    /\ len_in = NoHeader
    /\ len_out = NotComputed
    /\ fn_in = [fn |-> "decode"]
    /\ fn_out = NotComputed

\* Hdu::read_data_force (fits.rs:537) on the HDU that a scan from offset 0
\* produced.
DecodeData ==
    /\ fn_in.fn = "decode"
    /\ ~fn_out.done
    /\ fn_out' = [done |-> TRUE, value |-> read_data_force(file, Unwrap(Scan(file, 0)).hdu)]
    /\ UNCHANGED << archive_vars, len_in, len_out, fn_in >>

SpecDecode == InitDecode /\ [][DecodeData]_vars

\* ------------------------------------------------------ the scanner, isolated
\* The archive is opened on a scanner file and one scan is started at the
\* offset of the drawn header.
InitScan ==
    /\ InitOpened
    /\ file \in ScanFiles
    /\ opsLeft = MaxOps
    /\ len_in = NoHeader
    /\ len_out = NotComputed
    /\ fn_in = [fn |-> "scan", p |-> IF ScanParams(file).behind THEN BlockBytes ELSE 0]
    /\ fn_out = NotComputed

\* IterableOverHdu::read_next_hdu (fits.rs:344) from offset p; the cursor of
\* the file is left where the card loop stopped.
ScanHeader ==
    /\ fn_in.fn = "scan"
    /\ ~fn_out.done
    /\ fn_out' = [done |-> TRUE, value |-> Scan(file, fn_in.p)]
    /\ file_pos' = IF IsSome(Scan(file, fn_in.p))
                   THEN Unwrap(Scan(file, fn_in.p)).hdu.data_start
                   ELSE FileSize(file)
    /\ UNCHANGED << file, hdus, total_hdu_count, file_lock, hdus_lock, poisoned,
                    consumed, pc, op, iter, tmp, ret, yielded, late, first_full,
                    decodes, writes, first_ret, opsLeft, readsLeft, len_in, len_out,
                    fn_in, capacity, buffer >>

SpecScan == InitScan /\ [][ScanHeader]_vars

\* ------------------------------------------------- the archive on a long file
\* The archive is opened on the file of five HDUs; one iterator or lookup
\* may be started, and read_data calls.
InitLong ==
    /\ InitOpened
    /\ file \in LongFiles
    /\ opsLeft = 1
    /\ readsLeft = MaxReads
    /\ len_in = NoHeader
    /\ len_out = NotComputed
    /\ fn_in = NoInput
    /\ fn_out = NotComputed

SpecLong == InitLong /\ [][Next]_vars

\* ------------------------------------------------ what a decoded card holds
\* The card drawn has a keyword and the value indicator, and its value
\* sub-field is the slice before the first slash (fits.rs:702-704, 735-739).
KeyedCard ==
    /\ fn_in.fn = "card"
    /\ fn_in.card[1] # SPACE_U8
    /\ fn_in.card[9] = EQUAL_U8
    /\ fn_in.card[10] = SPACE_U8

SubField == value_slice(SubSeq(fn_in.card, 11, 80))

\* The call returned a record that carries a value-and-comment part.
DecodedRecord ==
    /\ fn_out.done
    /\ fn_out.value.outcome = "return"
    /\ IsSome(fn_out.value.value)
    /\ IsSome(Unwrap(fn_out.value.value).vc)

\* The Option<HeaderValue> of that record.
DecodedValue == Unwrap(Unwrap(fn_out.value.value).vc).value

\* ----------------------------------------------------------------- claim C12
\* The text between the opening quote of sub (its first byte) and the first
\* unescaped quote, with each doubled quote replaced by one; None when no
\* unescaped quote follows.  Quotes pair up from the left within a run of
\* quotes, so the first unescaped quote is the last quote of the first run
\* of odd length, and the second quote of every pair before it is dropped.
quoted_text(sub) ==
    LET RunStart(j) == CHOOSE r \in 2..j :
                           /\ \A k \in r..j : sub[k] = QUOTE_U8
                           /\ r = 2 \/ sub[r - 1] # QUOTE_U8
        closing == { j \in 2..Len(sub) :
                       /\ sub[j] = QUOTE_U8
                       /\ j = Len(sub) \/ sub[j + 1] # QUOTE_U8
                       /\ (j - RunStart(j)) % 2 = 0 }
    IN  IF closing = {} THEN None
        ELSE LET close == CHOOSE j \in closing : \A k \in closing : j <= k
                 kept == { j \in 2..(close - 1) :
                             sub[j] = QUOTE_U8 => (j - RunStart(j)) % 2 = 0 }
             IN  Some([n \in 1..Cardinality(kept) |->
                          sub[CHOOSE j \in kept : Cardinality({ k \in kept : k <= j }) = n]])

\* C12: a value sub-field that starts with a single quote (and is closed by
\* an unescaped quote) decodes to the character string made of the text
\* between the two, doubled quotes replaced by one quote, every character in
\* its original order, trailing spaces removed, one space for an all-space
\* text.
C12_StringIsQuotedText ==
    (/\ KeyedCard /\ fn_out.done
     /\ SubField # << >> /\ SubField[1] = QUOTE_U8
     /\ IsSome(quoted_text(SubField)))
        => /\ DecodedRecord
           /\ IsSome(DecodedValue)
           /\ Unwrap(DecodedValue).tag = "CharacterString"
           /\ LET text == Unwrap(quoted_text(SubField))
                  kept == { j \in 1..Len(text) : text[j] # SPACE_U8 }
              IN  Unwrap(DecodedValue).v
                    = IF text = << >> THEN << >>
                      ELSE IF kept = {} THEN << SPACE_U8 >>
                      ELSE SubSeq(text, 1, CHOOSE j \in kept : \A k \in kept : j >= k)

\* ----------------------------------------------------------------- claim C13
\* C13: a value sub-field decodes to a logical value if and only if its byte
\* at offset 19 is T or F and every other byte of it is blank, T giving true
\* and F giving false; a sub-field with a blank or no byte at offset 19 never
\* decodes to a logical value.
C13_LogicalIffMarkAtColumn ==
    (KeyedCard /\ DecodedRecord)
        => LET LogicalField ==
                   /\ Len(SubField) > logical_constant_column
                   /\ SubField[logical_constant_column + 1] \in {T_U8, F_U8}
                   /\ \A j \in 1..Len(SubField) :
                          j # logical_constant_column + 1 => SubField[j] = SPACE_U8
               DecodedLogical == IsSome(DecodedValue) /\ Unwrap(DecodedValue).tag = "Logical"
           IN  /\ DecodedLogical <=> LogicalField
               /\ DecodedLogical /\ LogicalField
                     => Unwrap(DecodedValue)
                            = Logical(SubField[logical_constant_column + 1] = T_U8)

\* ----------------------------------------------------------------- claim C15
\* C15: for every card with a non-blank keyword and the value indicator,
\* whatever bytes 10..80 hold (a value sub-field that is empty because byte
\* 10 is a slash included), the codec returns a record with a typed value or
\* an absent value and never aborts.
C15_KeyedCardNeverAborts ==
    (KeyedCard /\ fn_out.done) => DecodedRecord

\* ----------------------------------------------------------------- claim C17
\* The positions of the records of the header drawn whose keyword is the key.
Matches == { i \in 1..Len(fn_in.header) : fn_in.header[i].key = fn_in.key }

\* C17: Hdu::value(key) returns the value of the first record, in header
\* order, whose keyword equals key exactly; it is absent when no record has
\* that keyword and when that first record carries no value, even if a later
\* record with the same keyword carries one.
C17_ValueOfFirstMatch ==
    (fn_in.fn = "value" /\ fn_out.done)
        => LET first == CHOOSE i \in Matches : \A j \in Matches : i <= j
           IN  fn_out.value =
                  (IF Matches = {} THEN None
                   ELSE IF ~IsSome(fn_in.header[first].vc) THEN None
                   ELSE Unwrap(fn_in.header[first].vc).value)

\* A lookup has returned absent although a later record with the keyword
\* carries a value: the first record with the keyword has none.
C17_Witness ==
    /\ fn_in.fn = "value" /\ fn_out.done
    /\ fn_out.value = None
    /\ \E i \in Matches :
           /\ \E j \in Matches : j < i
           /\ IsSome(fn_in.header[i].vc)
           /\ IsSome(Unwrap(fn_in.header[i].vc).value)

\* ----------------------------------------------------------------- claim C14
\* C14: for integer data (BITPIX 16 or 32) in an HDU whose header has integer
\* BLANK = b, b anywhere in the signed 32-bit range, a decoded element is
\* missing if and only if its raw big-endian signed value equals b, and every
\* other element is present with its numeric value unchanged; without BLANK
\* every element is present.
C14_MissingIffRawEqualsBlank ==
    (fn_in.fn = "decode" /\ fn_out.done)
        => /\ IsSome(fn_out.value)
           /\ \A j \in 1..Len(DecodeParams(file).raw) :
                  Unwrap(fn_out.value).data[j] =
                      (IF DecodeParams(file).blank = Some(DecodeParams(file).raw[j])
                       THEN None
                       ELSE Some(DecodeParams(file).raw[j]))

\* ----------------------------------------------------------------- claim C18
\* The cards of the file from offset p on, and whether END is the keyword of
\* one of the first m blocks of them.
CardsFrom(p) == SubSeq(FileUnits(file), (p \div CardBytes) + 1, Len(FileUnits(file)))

EndWithin(p, m) ==
    /\ CardsPerBlock * m <= Len(CardsFrom(p))
    /\ \E j \in 1..(CardsPerBlock * m) : CardsFrom(p)[j].key = "END"

\* The smallest such m.
HeaderBlocks(p) ==
    CHOOSE m \in 1..Len(CardsFrom(p)) :
        EndWithin(p, m) /\ \A k \in 1..(m - 1) : ~EndWithin(p, k)

HasKeyword(card) == card.key # ""

\* C18: a header scan started at offset p on a file that holds enough cards
\* consumes exactly 36 * m cards, m the smallest positive integer such that a
\* card with keyword END is among the first 36 * m cards read; it drops every
\* blank-keyword card while still counting it, and records
\* data_start = p + 2880 * m.
C18_ScanConsumesWholeBlocks ==
    (fn_in.fn = "scan" /\ fn_out.done /\ \E m \in 1..Len(CardsFrom(fn_in.p)) : EndWithin(fn_in.p, m))
        => LET m == HeaderBlocks(fn_in.p)
               kept == SelectSeq(SubSeq(CardsFrom(fn_in.p), 1, CardsPerBlock * m), HasKeyword)
           IN  /\ IsSome(fn_out.value)
               /\ file_pos = fn_in.p + CardBytes * (CardsPerBlock * m)
               /\ Unwrap(fn_out.value).hdu.data_start = fn_in.p + BlockBytes * m
               /\ Records(Unwrap(fn_out.value).hdu.header)
                      = [i \in 1..Len(kept) |-> Unwrap(to_header_key_value(kept[i]))]

\* A scan behind a first HDU has read a header of two blocks that starts
\* with blank-keyword cards.
C18_Witness ==
    /\ fn_in.fn = "scan" /\ fn_out.done
    /\ fn_in.p = BlockBytes
    /\ ScanParams(file).blanks = 2
    /\ ScanParams(file).end_card = 37
    /\ HeaderBlocks(fn_in.p) = 2
    /\ file_pos = fn_in.p + 2 * BlockBytes
    /\ Len(Records(Unwrap(fn_out.value).hdu.header)) = 35

\* ----------------------------------------------------------------- claim C20
\* C20: when the header of an HDU has no integer NAXIS value, the scanner
\* takes its data section to be zero bytes long: the HDU is produced and the
\* offset of the next HDU equals its data_start, with no abort.
C20_NoNaxisMeansNoData ==
    (/\ fn_in.fn = "scan" /\ fn_out.done /\ IsSome(fn_out.value)
     /\ ~IsSome(value_as_integer_number(Unwrap(fn_out.value).hdu, "NAXIS")))
        => /\ IsSome(Unwrap(fn_out.value).next_position)
           /\ Unwrap(Unwrap(fn_out.value).next_position)
                  = Unwrap(fn_out.value).hdu.data_start

\* ----------------------------------------------------------------- claim C19
\* C19: when a card read fails (end of file or short read) before the header
\* termination condition is met, the scan produces no HDU, nothing is
\* appended to the cache, the iterator returns end-of-sequence without
\* aborting, and the fully-scanned flag is set to the number of HDUs in the
\* cache.
C19_FailedReadEndsSequence ==
    [][\A t \in Threads :
          /\ (pc[t] = "read" /\ pc'[t] = "scanned" /\ ~IsSome(CardLoop(file, file_pos)))
                => (tmp'[t] = None /\ hdus' = hdus)
          /\ (/\ pc[t] = "scanned" /\ pc'[t] # "scanned"
               /\ tmp[t] = None /\ op[t].kind # "into_iter")
                => /\ hdus' = hdus
                   /\ total_hdu_count' = Some(Len(hdus))
                   /\ poisoned' = poisoned
                   /\ op[t].kind \in IterKinds
                         => (ret'[t].status = "none" /\ pc'[t] = "ready")
    ]_vars

\* An iterator over the file that ends inside its second header has returned
\* the end of the sequence: the read failed in the middle of a block, one
\* HDU is cached and the flag holds 1.
C19_Witness ==
    /\ file = 4
    /\ FileTail(file) # << >>
    /\ Len(hdus) = 1
    /\ total_hdu_count = Some(1)
    /\ file_pos = FileSize(file)
    /\ \E t \in Threads :
           /\ op[t].kind \in IterKinds \ {"into_iter"}
           /\ pc[t] = "ready"
           /\ ret[t].status = "none"

\* ----------------------------------------------------------------- claim C16
\* C16: a reference to a cache entry handed out by an iterator or lookup
\* stays valid: appending later HDUs to the cache never relocates, replaces
\* or reorders an entry that is already in the cache (every entry is handed
\* out when it is appended).
C16_PublishedEntriesStayInPlace ==
    [][\A i \in 1..Len(hdus) :
          /\ i <= Len(hdus')
          /\ hdus'[i].header = hdus[i].header
          /\ hdus'[i].data_start = hdus[i].data_start
          /\ buffer' = buffer
    ]_vars

\* ----------------------------------------------------------------- claim C21
\* C21: for every HDU, NAXIS = 0 included, the decoder reads as many elements
\* as the scanner counted to size the data section: the bytes a decode has
\* read (elements times |BITPIX| / 8) equal data_byte_length and end at or
\* before the offset of the next HDU.
C21_DecodeReadsDataSection ==
    \A t \in Threads :
        (pc[t] = "store" /\ op[t].kind = "read_data") =>
            \E hdu \in { hdus[op[t].arg] } :
                /\ Len(Unwrap(tmp[t]).data)
                       * BytesPerElement(Unwrap(value_as_integer_number(hdu, "BITPIX")))
                     = Unwrap(data_byte_length_of(Records(hdu.header)))
                /\ file_pos <= Unwrap(Unwrap(Scan(file, hdu.header[2])).next_position)

\* ----------------------------------------------------------------- claim C22
\* C22: the offset of the next HDU that a scan computes is the smallest
\* multiple of 2880 that is greater than or equal to data_start +
\* data_byte_length, and is that sum when the sum is a multiple of 2880.
C22_NextOffsetIsBlockCeiling ==
    (/\ fn_in.fn = "scan" /\ fn_out.done /\ IsSome(fn_out.value)
     /\ IsSome(Unwrap(fn_out.value).next_position))
        => \E sum \in { Unwrap(fn_out.value).hdu.data_start
                          + Unwrap(data_byte_length_of(
                                      Records(Unwrap(fn_out.value).hdu.header))) },
              next \in { Unwrap(Unwrap(fn_out.value).next_position) } :
               /\ next % 2880 = 0
               /\ next >= sum
               /\ \A m \in 0..(next \div 2880) : 2880 * m >= sum => 2880 * m >= next
               /\ sum % 2880 = 0 => next = sum

\* A scan has sized a data section of one block and one byte, behind a header
\* of two blocks: the next HDU follows two blocks after the data start.
C22_Witness ==
    /\ fn_in.fn = "scan" /\ fn_out.done /\ IsSome(fn_out.value)
    /\ ScanParams(file).kind = "over"
    /\ ScanParams(file).end_card = 37
    /\ Unwrap(fn_out.value).hdu.data_start = fn_in.p + 2 * 2880
    /\ Unwrap(fn_out.value).next_position = Some(fn_in.p + 4 * 2880)

\* ----------------------------------------------------------------- claim C23
\* C23: a header scan and a data decode hold the file lock from their seek
\* to their last read: no seek or read of another operation comes between
\* them, so while an operation stands between its seek and its reads it is
\* the holder of the lock, it is the only such operation, and the cursor is
\* where it put it.
C23_SeekAndReadsUnderFileLock ==
    \A t \in Threads :
        /\ pc[t] \in {"read", "decode"} =>
              /\ file_lock = Some(t)
              /\ \A u \in Threads \ {t} : pc[u] \notin {"read", "decode"}
        /\ pc[t] = "read" => file_pos = iter[t].position
        /\ pc[t] = "decode" => file_pos = hdus[op[t].arg].data_start

\* A scan stands between its seek and its reads while a decode of another
\* thread, which will seek elsewhere, waits for the file.
C23_Witness ==
    \E t \in Threads, u \in Threads :
        /\ pc[t] = "read" /\ file_lock = Some(t)
        /\ pc[u] = "read_data_force"
        /\ hdus[op[u].arg].data_start # file_pos

\* ----------------------------------------------------------------- claim C24
\* C24: read_data calls interleaved between or during the next() calls of
\* an iterator change neither the HDUs the iterator yields (the HDUs of the
\* file, in file order, all of them once it is exhausted) nor the arrays
\* decoded (each the array read from the data_start of its HDU), wherever
\* the file cursor was left.
C24_CursorLeftByOthersIsIgnored ==
    \A t \in Threads :
        /\ op[t].kind \in IterKinds =>
              /\ \A k \in 1..Len(yielded[t]) : IsFileHdu(file, k, yielded[t][k])
              /\ Exhausted(t) => Len(yielded[t]) = Len(FileHdus(file))
        /\ (op[t].kind = "read_data" /\ pc[t] = "store") =>
              tmp[t] = read_data_force(file, hdus[op[t].arg])
        /\ (op[t].kind = "read_data" /\ pc[t] = "done") =>
              /\ ret[t].status = "data"
              /\ Some(ret[t].array) = read_data_force(file, hdus[op[t].arg])

\* An iterator that has yielded two HDUs has made the seek of its third scan
\* after a decode of the second HDU left the cursor inside that HDU's data.
C24_Witness ==
    \E t \in Threads, u \in Threads :
        /\ op[t].kind \in IterKinds /\ Len(yielded[t]) = 2 /\ pc[t] = "read"
        /\ op[u].kind = "read_data" /\ op[u].arg = 2 /\ pc[u] = "store"
        /\ Unwrap(tmp[u]).data = << 9 >>
        /\ file_pos = iter[t].position

\* ----------------------------------------------------------------- claim C25
\* C25: a next() call that asks for an index the cache already holds never
\* waits for a scan of another iterator: whenever such a call is about to
\* take the cache mutex, no scanning thread holds it.
C25_CachedRequestNeverWaits ==
    \A t \in Threads :
        (pc[t] = "guard" /\ iter[t].count < Len(hdus)) => hdus_lock = None

\* ------------------------------------------- the archive on a malformed file
\* The archive is opened on a file whose second header cannot size its data,
\* or on the file whose second header is cut short.
InitBroken ==
    /\ InitOpened
    /\ file \in BrokenFiles \cup {4}
    /\ len_in = NoHeader
    /\ len_out = NotComputed
    /\ fn_in = NoInput
    /\ fn_out = NotComputed

SpecBroken == InitBroken /\ [][Next]_vars

\* ----------------------------------------------------------------- claim C26
\* C26: a format error met while scanning HDU k is fatal only for the call
\* that triggered the scan: the cache keeps its entries, and a request for
\* an index the cache holds, from any thread, returns that entry.
C26_FormatErrorSparesCachedEntries ==
    \A t \in Threads :
        (pc[t] = "done" /\ op[t].kind \in IndexKinds /\ op[t].arg < Len(hdus))
            => /\ ret[t].status = "some"
               /\ ret[t].item = Item(op[t].arg + 1, hdus[op[t].arg + 1])

\* ----------------------------------------------------------------- claim C27
\* C27: no thread waits forever for a lock held by another waiting thread:
\* whenever a thread waits for the cache mutex or the file mutex, the holder
\* is another thread that is inside the section the lock protects and does
\* not itself wait for a lock.  (The fully-scanned flag and the data slot are
\* locked only for the time of one access, within one step.)
C27_NoThreadWaitsOnAWaitingThread ==
    LET Waiting(t) ==
            \/ pc[t] = "guard" /\ hdus_lock # None
            \/ pc[t] \in {"set_position", "read_data_force"} /\ file_lock # None
        Running(u) == pc[u] \in {"set_position", "read", "scanned", "decode"} /\ ~Waiting(u)
    IN  \A t \in Threads :
            /\ (pc[t] = "guard" /\ hdus_lock # None)
                  => Unwrap(hdus_lock) # t /\ Running(Unwrap(hdus_lock))
            /\ (pc[t] \in {"set_position", "read_data_force"} /\ file_lock # None)
                  => Unwrap(file_lock) # t /\ Running(Unwrap(file_lock))

\* A scan that holds the cache mutex waits for the file while a decode of the
\* other thread holds the file.
C27_Witness ==
    \E t \in Threads, u \in Threads :
        /\ pc[u] = "set_position" /\ hdus_lock = Some(u)
        /\ pc[t] = "decode" /\ file_lock = Some(t)

\* ----------------------------------------------------------------- claim C28
\* C28: once the fully-scanned flag is set it equals the number of entries
\* of the cache, and from then on no step changes the flag or the entries of
\* the cache, whatever iterators do, those created before the flag was set
\* included.
C28_FlagSetFreezesCache ==
    [][IsSome(total_hdu_count) =>
          /\ Unwrap(total_hdu_count) = Len(hdus)
          /\ total_hdu_count' = total_hdu_count
          /\ Len(hdus') = Len(hdus)
          /\ \A i \in 1..Len(hdus) :
                 hdus'[i].header = hdus[i].header /\ hdus'[i].data_start = hdus[i].data_start
    ]_vars

\* ------------------------------------------------ the archive, calls going on
\* A step of the call thread t is in: the caller of an iterator asks for the
\* next item, and a call that was started runs on.
Proceed(t) ==
    \/ UserNext(t) \/ NextCheck(t) \/ NextGuard(t) \/ set_position(t)
    \/ ReadCards(t) \/ NextPush(t) \/ NextEnd(t) \/ IntoNext(t)
    \/ ReadDataCheck(t) \/ ReadDataCached(t)
    \/ DecodeSeek(t) \/ DecodeRead(t) \/ DecodeStore(t)

\* Every thread is scheduled again and again, and the caller of an iterator
\* keeps asking for the next item until it drops the iterator.
SpecFair == Init /\ [][Next]_vars /\ \A t \in Threads : WF_vars(Proceed(t))

\* ----------------------------------------------------------------- claim C29
\* C29: every iteration over a finite file terminates.  Each successful scan
\* leaves the offset of its iterator at a multiple of 2880 strictly greater
\* than the offset it started from; an iterator that is asked again and again
\* returns end-of-sequence at last; and once it has, it returns
\* end-of-sequence to every later call and yields nothing more.
C29_IterationTerminates ==
    /\ [][\A t \in Threads :
             /\ (pc[t] = "scanned" /\ pc'[t] = "ready" /\ ret'[t].status = "some")
                   => /\ iter'[t].position % 2880 = 0
                      /\ iter'[t].position > iter[t].position
             /\ (op[t].kind \in IterKinds /\ ret[t].status = "none" /\ op'[t] = op[t])
                   => (ret'[t].status = "none" /\ yielded'[t] = yielded[t])
       ]_vars
    /\ \A t \in Threads :
           (op[t].kind \in IterKinds)
               ~> (op[t].kind \notin IterKinds \/ ret[t].status \in {"none", "abort"})

\* An iterator that walked the three HDUs of a file, scanning the last two
\* itself, has returned end-of-sequence and was then asked again.
C29_Witness ==
    \E t \in Threads :
        /\ file = 3 /\ op[t].kind \in IterKinds /\ Len(yielded[t]) = 3
        /\ iter[t].position = FileSize(file)
        /\ ret[t].status = "none" /\ pc[t] = "next"

====
